---- MODULE Spec2Model ----
(***************************************************************************)
(* Model of the semantic search subsystem of TribalCapturer                *)
(* (backend/src/services/semantic_search_service.py), of the HTTP routes   *)
(* that expose it (backend/src/api/routes/knowledge.py) and of the         *)
(* knowledge entry writes (backend/src/services/knowledge_service.py).     *)
(*                                                                         *)
(* Text is a tuple of one-character strings, NULL is a column without a    *)
(* value.  A similarity is kept in units of 1/50 (0.5 is 25, 1.0 is 50);   *)
(* the vectors of the model have integer norms, so every cosine of the     *)
(* model is an exact multiple of 1/50 and is ordered as the float is.      *)
(***************************************************************************)
EXTENDS Integers, Sequences, FiniteSets, TLC

VARIABLES
    store,            \* rows of knowledge_entries, in the store's natural order
    client,           \* module-level OpenAI client: TRUE when it was constructed
    pc,               \* position of the request being served
    route,            \* HTTP route that received the request, "none" for a direct call
    op,               \* service function the request runs
    query,            \* semantic_search / keyword_search / autocomplete: query text
    filters,          \* the filters dict
    top_k,            \* top_k, or autocomplete's limit
    field,            \* search_autocomplete's field argument
    min_similarity,   \* semantic_search's threshold
    query_embedding,  \* semantic_search: local query_embedding
    entries,          \* semantic_search: local entries (fetched candidates)
    idx,              \* semantic_search: position of the for loop in entries
    scored_entries,   \* semantic_search: local scored_entries
    result,           \* list the operation returned
    suggestions,      \* list search_autocomplete returned
    error,            \* error the operation surfaced to its caller
    last_call,        \* outcome of the latest generate_embedding call
    embed_calls,      \* embedding calls issued by the request
    db_queries,       \* record-store queries issued by the request
    db_error,         \* TRUE when a record-store query of the request raised
    user,             \* knowledge_service: the calling user
    entry_id,         \* update / delete: id of the entry addressed
    entry_data,       \* update: the KnowledgeEntryUpdate payload
    entries_data,     \* batch creation: the submitted entries
    created_entries,  \* batch creation: entries added to the session, uncommitted
    returned,         \* what a knowledge_service function returned: None, False,
                      \* True, the updated entry, or the list of created entries
    store_at_call,    \* the store as it was when the write request started
    writes,           \* write requests served so far
    parked            \* locals of a search request suspended at an await while
                      \* another request runs

vars == <<store, client, pc, route, op, query, filters, top_k, field, min_similarity,
          query_embedding, entries, idx, scored_entries, result, suggestions,
          error, last_call, embed_calls, db_queries, db_error, user, entry_id,
          entry_data, entries_data, created_entries, returned, store_at_call,
          writes, parked>>

\* State of the knowledge_service requests; the search requests leave it alone.
writeVars == <<user, entry_id, entry_data, entries_data, created_entries, returned,
               store_at_call, writes>>

\* State of the search requests; the knowledge_service requests leave it alone.
searchVars == <<client, route, query, filters, top_k, field, min_similarity,
                query_embedding, entries, scored_entries, result, suggestions,
                last_call, embed_calls>>

(***************************************************************************)
(* Bounds of the model.                                                    *)
(***************************************************************************)
MaxRecords == 3
MaxTopK == 2

(***************************************************************************)
(* Text and SQL pattern matching.                                          *)
(***************************************************************************)
NULL == <<"<null>">>
None == <<>>

Lower(ch) == CASE ch = "A" -> "a" [] ch = "C" -> "c" [] OTHER -> ch

RECURSIVE LikeMatch(_, _)
\* SQL LIKE on lower-cased operands: % matches any run, _ any one character.
LikeMatch(text, pat) ==
    IF pat = <<>> THEN text = <<>>
    ELSE IF Head(pat) = "%"
         THEN LikeMatch(text, Tail(pat))
              \/ (text # <<>> /\ LikeMatch(Tail(text), pat))
    ELSE IF Head(pat) = "_"
         THEN text # <<>> /\ LikeMatch(Tail(text), Tail(pat))
    ELSE text # <<>> /\ Lower(Head(text)) = Lower(Head(pat))
         /\ LikeMatch(Tail(text), Tail(pat))

\* column.ilike(pattern) in a WHERE clause: a NULL column never satisfies it.
ilike(column, pattern) == column # NULL /\ LikeMatch(column, pattern)

\* f"%{text}%"
Wrap(text) == <<"%">> \o text \o <<"%">>

\* Python truthiness of an optional string (filters.get(key), `if query`).
Truthy(x) == x # NULL /\ x # <<>>

Min(a, b) == IF a <= b THEN a ELSE b

(***************************************************************************)
(* The record store.  Entry fields follow models/knowledge_entry.py.       *)
(***************************************************************************)
Entry(i, uid, st, fac, fid, spec, sid, prov, kt, cc, desc) ==
    [id |-> i, user_id |-> uid, status |-> st, facility |-> fac, facility_id |-> fid,
     specialty_service |-> spec, specialty_id |-> sid,
     provider_name |-> prov, knowledge_type |-> kt, is_continuity_care |-> cc,
     knowledge_description |-> desc]

\* Rows a store of the model is made of: published and draft rows, a NULL
\* provider, mixed case, rows that match a query in one column only.  Each row
\* names a facility and a specialty its author is assigned to, with their ids.
EntryPool ==
    { Entry(1, 1, "published", <<"C", "a">>, 1, <<"b">>, 1, NULL,
            "diagnosis_specialty", FALSE, <<"a", "c">>),
      Entry(2, 2, "published", <<"b">>, 2, <<"A", "c">>, 2, <<"a">>,
            "general_knowledge", TRUE, <<"b">>),
      Entry(3, 2, "draft", <<"C", "a">>, 1, <<"A", "c">>, 2, <<"a">>,
            "diagnosis_specialty", TRUE, <<"a", "c">>),
      Entry(4, 2, "published", <<"b">>, 2, <<"b">>, 1, <<"C", "a">>,
            "diagnosis_specialty", FALSE, <<"b">>) }

\* Every store of at most MaxRecords distinct rows, in every order.
Stores ==
    { s \in UNION { [1..n -> EntryPool] : n \in 0..MaxRecords } :
        \A i, j \in DOMAIN s : i # j => s[i] # s[j] }

Queries == { <<>>, <<"a">>, <<"c", "_">> }

Filters(fac, spec, prov, kt, cc) ==
    [facility |-> fac, specialty |-> spec, provider |-> prov,
     knowledge_type |-> kt, is_continuity_care |-> cc]

\* Filter dicts of the model.  An absent key is NULL ("" for knowledge_type,
\* {} for is_continuity_care, whose value is None, True or False).
NoFilters == Filters(NULL, NULL, NULL, "", {})

FilterPool ==
    { NoFilters,
      Filters(<<"c">>, NULL, NULL, "", {}),
      Filters(NULL, <<"_", "c">>, NULL, "", {}),
      Filters(NULL, NULL, <<"a">>, "", {}),
      Filters(NULL, NULL, NULL, "diagnosis_specialty", {}),
      Filters(NULL, NULL, NULL, "", {FALSE}),
      Filters(<<>>, NULL, NULL, "general_knowledge", {TRUE}) }

TopKs == 0..MaxTopK

\* config-free constants of the code
DefaultMinSimilarity == 25
KeywordScore == 25
MinSimilarities == { DefaultMinSimilarity, 40 }

(***************************************************************************)
(* Embedding Provider Adapter.                                             *)
(***************************************************************************)
\* Answers of two embedding models, of different dimensions.
VectorsOfTwoModels == { <<1, 0, 0, 0>>, <<0, 1, 0, 0>>, <<1, 0>>, <<0, 0, 0, 0>> }

\* Vectors the embedding service answers with (one model, one dimension).
\* Their cosines are 0, 0.5 (the default threshold itself) and 1; the zero
\* vector has none.
Vectors == { <<1, 0, 0, 0>>, <<0, 1, 0, 0>>, <<1, 1, 1, 1>>, <<0, 0, 0, 0>> }

\* Ways client.embeddings.create ends: a response, or an exception.
FailureKinds == { "timeout", "authentication", "rate_limit", "network", "malformed" }

ApiOutcomes ==
    [kind : {"ok"}, vec : Vectors] \cup [kind : FailureKinds, vec : {None}]

\* The exception class the failure arrives as: the openai library raises
\* subclasses of OpenAIError; a malformed response fails in response.data[0].
ExceptionClass(kind) == IF kind = "malformed" THEN "Exception" ELSE "OpenAIError"

\* generate_embedding without its `except Exception` clause.
generate_embedding_narrow_except(cl, outcome) ==
    IF ~cl
    THEN [kind |-> "no_client", raised |-> FALSE, value |-> None]
    ELSE IF outcome.kind = "ok"
    THEN [kind |-> "ok", raised |-> FALSE, value |-> outcome.vec]
    ELSE IF ExceptionClass(outcome.kind) = "OpenAIError"
    THEN [kind |-> "except OpenAIError", raised |-> FALSE, value |-> None]
    ELSE [kind |-> "uncaught", raised |-> TRUE, value |-> None]

\* last_call.kind names the branch of generate_embedding that returned.
generate_embedding(cl, outcome) ==
    IF ~cl
    THEN [kind |-> "no_client", raised |-> FALSE, value |-> None]
    ELSE IF outcome.kind = "ok"
    THEN [kind |-> "ok", raised |-> FALSE, value |-> outcome.vec]
    ELSE IF ExceptionClass(outcome.kind) = "OpenAIError"
    THEN [kind |-> "except OpenAIError", raised |-> FALSE, value |-> None]
    ELSE [kind |-> "except Exception", raised |-> FALSE, value |-> None]

RECURSIVE Dot(_, _)
Dot(a, b) == IF a = <<>> THEN 0 ELSE Head(a) * Head(b) + Dot(Tail(a), Tail(b))

\* np.linalg.norm on the vectors of the model, whose norms are integers.
Norm(a) == CHOOSE n \in 0..Dot(a, a) : n * n = Dot(a, a)

\* cosine_similarity dividing Python floats: a zero norm raises ZeroDivisionError.
cosine_similarity_float_division(a, b) ==
    IF Len(a) # Len(b) \/ Norm(a) * Norm(b) = 0
    THEN [raised |-> TRUE, nan |-> FALSE, val |-> 0]
    ELSE [raised |-> FALSE, nan |-> FALSE,
          val |-> (Dot(a, b) * 50) \div (Norm(a) * Norm(b))]

\* np.dot raises on a shape mismatch; a zero norm divides to nan, no error.
cosine_similarity(a, b) ==
    IF Len(a) # Len(b) THEN [raised |-> TRUE, nan |-> FALSE, val |-> 0]
    ELSE IF Norm(a) * Norm(b) = 0 THEN [raised |-> FALSE, nan |-> TRUE, val |-> 0]
    ELSE [raised |-> FALSE, nan |-> FALSE,
          val |-> (Dot(a, b) * 50) \div (Norm(a) * Norm(b))]

\* The threshold test with 0.5 written in place of min_similarity.
AboveThresholdHardcoded(sim, min) == ~sim.nan /\ sim.val >= DefaultMinSimilarity

\* similarity >= min_similarity: every comparison with nan is false.
AboveThreshold(sim, min) == ~sim.nan /\ sim.val >= min

(***************************************************************************)
(* Record-store queries of the search service.                             *)
(***************************************************************************)
\* The text filters of the candidate query compared for equality.
SemanticFiltersExactText(e, f) ==
    /\ Truthy(f.facility) => e.facility = f.facility
    /\ Truthy(f.specialty) => e.specialty_service = f.specialty
    /\ Truthy(f.provider) => e.provider_name = f.provider
    /\ f.knowledge_type # "" => e.knowledge_type = f.knowledge_type
    /\ f.is_continuity_care # {} => e.is_continuity_care \in f.is_continuity_care

\* The WHERE clauses semantic_search adds for the filters dict.
SemanticFilters(e, f) ==
    /\ Truthy(f.facility) => ilike(e.facility, Wrap(f.facility))
    /\ Truthy(f.specialty) => ilike(e.specialty_service, Wrap(f.specialty))
    /\ Truthy(f.provider) => ilike(e.provider_name, Wrap(f.provider))
    /\ f.knowledge_type # "" => e.knowledge_type = f.knowledge_type
    /\ f.is_continuity_care # {} => e.is_continuity_care \in f.is_continuity_care

\* The candidate query without its status clause.
FetchAnyStatus(db, f) == SelectSeq(db, LAMBDA e : SemanticFilters(e, f))

\* select(KnowledgeEntry).where(status == "published") plus the filters.
FetchPublished(db, f) ==
    SelectSeq(db, LAMBDA e : e.status = "published" /\ SemanticFilters(e, f))

\* The OR of the four column matches of keyword_search_fallback.
KeywordMatch(e, q) ==
    \/ ilike(e.knowledge_description, Wrap(q))
    \/ ilike(e.specialty_service, Wrap(q))
    \/ ilike(e.facility, Wrap(q))
    \/ (IF q # <<>> THEN ilike(e.provider_name, Wrap(q)) ELSE FALSE)

\* The WHERE clauses keyword_search_fallback adds for the filters dict.
KeywordFilters(e, f) ==
    /\ Truthy(f.facility) => ilike(e.facility, Wrap(f.facility))
    /\ Truthy(f.specialty) => ilike(e.specialty_service, Wrap(f.specialty))
    /\ Truthy(f.provider) => ilike(e.provider_name, Wrap(f.provider))
    /\ f.knowledge_type # "" => e.knowledge_type = f.knowledge_type
    /\ f.is_continuity_care # {} => e.is_continuity_care \in f.is_continuity_care

\* No limit applied.
LimitMissing(rows, n) == rows

\* stmt.limit(n) for n >= 0, and list[:n] for n >= 0.
Limit(rows, n) == SubSeq(rows, 1, Min(n, Len(rows)))

\* The fallback rows scored 1.0 in place of the sentinel.
keyword_search_fallback_full_score(db, q, f, k) ==
    LET rows == SelectSeq(db, LAMBDA e : /\ e.status = "published"
                                         /\ KeywordMatch(e, q)
                                         /\ KeywordFilters(e, f))
        kept == Limit(rows, k)
    IN  [i \in 1..Len(kept) |-> [entry |-> kept[i], score |-> 50]]

keyword_search_fallback(db, q, f, k) ==
    LET rows == SelectSeq(db, LAMBDA e : /\ e.status = "published"
                                         /\ KeywordMatch(e, q)
                                         /\ KeywordFilters(e, f))
        kept == Limit(rows, k)
    IN  [i \in 1..Len(kept) |-> [entry |-> kept[i], score |-> KeywordScore]]

\* An unstable placement: an element goes in front of the elements already
\* placed whose score is equal.
RECURSIVE InsertByScoreBeforeEqual(_, _)
InsertByScoreBeforeEqual(sorted, x) ==
    IF sorted = <<>> THEN <<x>>
    ELSE IF Head(sorted).score > x.score
         THEN <<Head(sorted)>> \o InsertByScoreBeforeEqual(Tail(sorted), x)
         ELSE <<x>> \o sorted

\* scored_entries.sort(key=score, reverse=True): a stable sort, so an element
\* goes behind every element already placed whose score is not smaller.
RECURSIVE InsertByScore(_, _)
InsertByScore(sorted, x) ==
    IF sorted = <<>> THEN <<x>>
    ELSE IF Head(sorted).score >= x.score
         THEN <<Head(sorted)>> \o InsertByScore(Tail(sorted), x)
         ELSE <<x>> \o sorted

\* The sort left out: scored_entries in fetch order.
SortMissing(scored) == scored

RECURSIVE SortByScore(_)
SortByScore(scored) ==
    IF scored = <<>> THEN <<>>
    ELSE InsertByScore(SortByScore(SubSeq(scored, 1, Len(scored) - 1)),
                       scored[Len(scored)])

\* The cut taken before the sort: the first top_k retained candidates, sorted.
RankTopKCutFirst(scored, k) == SortByScore(Limit(scored, k))

\* Sort by similarity (highest first) and return top_k.
RankTopK(scored, k) == Limit(SortByScore(scored), k)

(***************************************************************************)
(* Autocomplete.                                                           *)
(***************************************************************************)
ValidFields == { "provider_name", "specialty_service", "facility" }
Fields == ValidFields \cup { "ma_name" }

\* An invalid field defaulting to facility.
AutocompleteFieldDefaultsToFacility(fld) == IF fld \notin ValidFields THEN "facility" ELSE fld

\* if field not in valid_fields: field = "specialty_service"
AutocompleteField(fld) == IF fld \notin ValidFields THEN "specialty_service" ELSE fld

Column(e, fld) ==
    CASE fld = "provider_name" -> e.provider_name
      [] fld = "facility" -> e.facility
      [] OTHER -> e.specialty_service

\* The values the SELECT DISTINCT of search_autocomplete ranges over.
AutocompleteValues(db, q, fld) ==
    { Column(db[i], AutocompleteField(fld)) : i \in
        { j \in DOMAIN db :
            /\ db[j].status = "published"
            /\ ilike(Column(db[j], AutocompleteField(fld)), Wrap(q))
            /\ Column(db[j], AutocompleteField(fld)) # NULL } }

\* DISTINCT ... LIMIT without ORDER BY: any limit of the distinct values, in any
\* order; the list comprehension then drops falsy values.
search_autocomplete(db, q, fld, limit) ==
    LET vals == AutocompleteValues(db, q, fld)
        n == Min(limit, Cardinality(vals))
    IN  { SelectSeq(s, LAMBDA v : Truthy(v)) :
            s \in { t \in [1..n -> vals] : \A i, j \in 1..n : i # j => t[i] # t[j] } }

(***************************************************************************)
(* The state machine: one request at a time, each await a step.            *)
(***************************************************************************)
\* last_call: what the embedding call met (failure) and what
\* generate_embedding made of it (call).
NoCall == [failure |-> FALSE, call |-> [kind |-> "none", raised |-> FALSE, value |-> None]]

CallRecord(cl, o) == [failure |-> ~cl \/ o.kind # "ok", call |-> generate_embedding(cl, o)]

\* Users of the model (models/user.py): two MAs and a Creator.
User(i, r) == [id |-> i, role |-> r]
Users == { User(1, "MA"), User(2, "MA"), User(3, "Creator") }
NoUser == User(0, "none")

\* KnowledgeEntryUpdate payloads.  An Optional field is a set: {} when it was
\* not provided (None), {v} when it was.
UpdateData(fac, spec, prov, kt, cc, desc, st) ==
    [facility |-> fac, specialty_service |-> spec, provider_name |-> prov,
     knowledge_type |-> kt, is_continuity_care |-> cc,
     knowledge_description |-> desc, status |-> st]

NoData == UpdateData({}, {}, {}, {}, {}, {}, {})

\* No knowledge_service function has returned yet.
NotReturned == "not returned"

\* The locals of a search request, as a record, and their blank values.
Frame(p, r, o, q, f, k, fld, m, qe, es, i, sc, res, sug, err, lc, ec, dq, de) ==
    [pc |-> p, route |-> r, op |-> o, query |-> q, filters |-> f, top_k |-> k,
     field |-> fld, min_similarity |-> m, query_embedding |-> qe, entries |-> es,
     idx |-> i, scored_entries |-> sc, result |-> res, suggestions |-> sug,
     error |-> err, last_call |-> lc, embed_calls |-> ec, db_queries |-> dq,
     db_error |-> de]

IdleFrame ==
    Frame("idle", "none", "none", <<>>, NoFilters, 0, "none", DefaultMinSimilarity,
          None, <<>>, 0, <<>>, <<>>, <<>>, "none", NoCall, 0, 0, FALSE)

\* No request is being served: every local of the request frame is blank.
InitFrame ==
    /\ pc = "idle"
    /\ route = "none"
    /\ op = "none"
    /\ query = <<>>
    /\ filters = NoFilters
    /\ top_k = 0
    /\ field = "none"
    /\ min_similarity = DefaultMinSimilarity
    /\ query_embedding = None
    /\ entries = <<>>
    /\ idx = 0
    /\ scored_entries = <<>>
    /\ result = <<>>
    /\ suggestions = <<>>
    /\ error = "none"
    /\ last_call = NoCall
    /\ embed_calls = 0
    /\ db_queries = 0
    /\ db_error = FALSE
    /\ user = NoUser
    /\ entry_id = 0
    /\ entry_data = NoData
    /\ entries_data = <<>>
    /\ created_entries = <<>>
    /\ returned = NotReturned
    /\ store_at_call = <<>>
    /\ writes = 0
    /\ parked = IdleFrame

Init ==
    /\ store \in Stores
    /\ client \in BOOLEAN
    /\ InitFrame

\* The caller binds the arguments of semantic_search and the function starts.
EnterSemanticSearch(q, f, k, m) ==
    /\ pc' = "embed_query"
    /\ op' = "semantic_search"
    /\ query' = q
    /\ filters' = f
    /\ top_k' = k
    /\ min_similarity' = m
    /\ UNCHANGED <<store, client, field, query_embedding, entries, idx,
                   scored_entries, result, suggestions, error, last_call,
                   embed_calls, db_queries, db_error>>
    /\ UNCHANGED <<writeVars, parked>>

\* A direct call of the service function, with any arguments.
SemanticSearchCall ==
    /\ pc = "idle"
    /\ route' = route
    /\ \E q \in Queries, f \in FilterPool, k \in TopKs, m \in MinSimilarities :
          EnterSemanticSearch(q, f, k, m)

\* The filters dict the smart-search route builds from its query parameters.
BuildFilters(raw) ==
    Filters(IF Truthy(raw.facility) THEN raw.facility ELSE NULL,
            IF Truthy(raw.specialty) THEN raw.specialty ELSE NULL,
            IF Truthy(raw.provider) THEN raw.provider ELSE NULL,
            raw.knowledge_type,
            raw.is_continuity_care)

RouteMaxTopK == 50

\* The route's constraints without min_length=1 on q.
SmartSearchValidNoMinLength(q, k) == k >= 1 /\ k <= RouteMaxTopK

\* Query(..., min_length=1) and Query(10, ge=1, le=50) of the smart-search route.
SmartSearchValid(q, k) == Len(q) >= 1 /\ k >= 1 /\ k <= RouteMaxTopK

\* GET /smart-search/: the declared parameter constraints are checked before
\* the handler body runs; the body calls semantic_search(db, q, filters, top_k).
IntelligentSearch ==
    /\ pc = "idle"
    /\ route' = "smart-search"
    /\ \E q \in Queries, raw \in FilterPool, k \in TopKs :
          IF SmartSearchValid(q, k)
          THEN EnterSemanticSearch(q, BuildFilters(raw), k, DefaultMinSimilarity)
          ELSE /\ pc' = "done"
               /\ query' = q
               /\ filters' = BuildFilters(raw)
               /\ top_k' = k
               /\ error' = "validation"
               /\ UNCHANGED <<store, client, op, field, min_similarity,
                              query_embedding, entries, idx, scored_entries,
                              result, suggestions, last_call, embed_calls,
                              db_queries, db_error>>
               /\ UNCHANGED <<writeVars, parked>>

\* "match_type": "semantic" if score > 0.5 else "keyword"
MatchTypeThreshold == 25

MatchType(score) == IF score > MatchTypeThreshold THEN "semantic" ELSE "keyword"

\* The "results" list of the smart-search response, built from the list
\* semantic_search returned.
SmartSearchResponse(results) ==
    [i \in DOMAIN results |->
        [entry |-> results[i].entry,
         relevance_score |-> results[i].score,
         match_type |-> MatchType(results[i].score)]]

\* query_embedding = await generate_embedding(query), and the branch on None.
QueryEmbedding ==
    /\ pc = "embed_query"
    /\ \E o \in ApiOutcomes :
          LET r == generate_embedding(client, o) IN
          /\ last_call' = CallRecord(client, o)
          /\ embed_calls' = embed_calls + 1
          /\ query_embedding' = r.value
          /\ IF r.raised THEN pc' = "done" /\ error' = "embedding"
             ELSE IF r.value = None THEN pc' = "keyword" /\ error' = error
             ELSE pc' = "fetch" /\ error' = error
    /\ UNCHANGED <<store, client, route, op, query, filters, top_k, field,
                   min_similarity, entries, idx, scored_entries, result,
                   suggestions, db_queries, db_error>>
    /\ UNCHANGED <<writeVars, parked>>

\* An empty candidate list handed to the keyword matcher instead of returned.
FetchEntriesEmptyFallsBack ==
    /\ pc = "fetch"
    /\ db_queries' = db_queries + 1
    /\ \E ok \in BOOLEAN :
          IF ~ok
          THEN /\ pc' = "done" /\ error' = "store" /\ db_error' = TRUE
               /\ UNCHANGED <<entries, idx, result>>
          ELSE /\ entries' = FetchPublished(store, filters)
               /\ error' = error /\ db_error' = db_error
               /\ result' = result
               /\ IF entries' = <<>>
                  THEN pc' = "keyword" /\ idx' = idx
                  ELSE pc' = "score" /\ idx' = 1
    /\ UNCHANGED <<store, client, route, op, query, filters, top_k, field,
                   min_similarity, query_embedding, scored_entries, suggestions,
                   last_call, embed_calls>>
    /\ UNCHANGED <<writeVars, parked>>

\* The candidate query with its failure swallowed: an empty list is returned.
FetchEntriesMasksFailure ==
    /\ pc = "fetch"
    /\ db_queries' = db_queries + 1
    /\ \E ok \in BOOLEAN :
          IF ~ok
          THEN /\ pc' = "done" /\ error' = error /\ db_error' = TRUE
               /\ result' = <<>>
               /\ UNCHANGED <<entries, idx>>
          ELSE /\ entries' = FetchPublished(store, filters)
               /\ error' = error /\ db_error' = db_error
               /\ IF entries' = <<>>
                  THEN pc' = "done" /\ result' = <<>> /\ idx' = idx
                  ELSE pc' = "score" /\ idx' = 1 /\ result' = result
    /\ UNCHANGED <<store, client, route, op, query, filters, top_k, field,
                   min_similarity, query_embedding, scored_entries, suggestions,
                   last_call, embed_calls>>
    /\ UNCHANGED <<writeVars, parked>>

\* result = await db.execute(stmt); entries = result.scalars().all();
\* if not entries: return [].  A failing query raises to the caller.
FetchEntries ==
    /\ pc = "fetch"
    /\ db_queries' = db_queries + 1
    /\ \E ok \in BOOLEAN :
          IF ~ok
          THEN /\ pc' = "done" /\ error' = "store" /\ db_error' = TRUE
               /\ UNCHANGED <<entries, idx, result>>
          ELSE /\ entries' = FetchPublished(store, filters)
               /\ error' = error /\ db_error' = db_error
               /\ IF entries' = <<>>
                  THEN pc' = "done" /\ result' = <<>> /\ idx' = idx
                  ELSE pc' = "score" /\ idx' = 1 /\ result' = result
    /\ UNCHANGED <<store, client, route, op, query, filters, top_k, field,
                   min_similarity, query_embedding, scored_entries, suggestions,
                   last_call, embed_calls>>
    /\ UNCHANGED <<writeVars, parked>>

\* A candidate without an embedding kept with similarity 0.
ScoredKeepsUnembedded(scored, entry, qvec, emb, min) ==
    IF emb = None THEN Append(scored, [entry |-> entry, score |-> 0])
    ELSE IF AboveThreshold(cosine_similarity(qvec, emb), min)
    THEN Append(scored, [entry |-> entry, score |-> cosine_similarity(qvec, emb).val])
    ELSE scored

\* scored_entries after the loop body ran for `entry` with embedding `emb`.
Scored(scored, entry, qvec, emb, min) ==
    IF emb = None THEN scored
    ELSE IF AboveThreshold(cosine_similarity(qvec, emb), min)
    THEN Append(scored, [entry |-> entry, score |-> cosine_similarity(qvec, emb).val])
    ELSE scored

\* The empty-retained-set test left out: the empty list is ranked and returned.
NoGoodMatchesIgnored(scored) == FALSE

\* if not scored_entries: fall back to keyword search.
NoGoodMatches(scored) == scored = <<>>

\* The loop body calling generate_embedding a second time for a candidate
\* whose first call returned None.
ScoreEntryRetries ==
    /\ pc = "score"
    /\ \E o \in ApiOutcomes :
          LET r == generate_embedding(client, o)
              failed == r.raised \/ (r.value # None /\
                            cosine_similarity(query_embedding, r.value).raised)
              scored == Scored(scored_entries, entries[idx], query_embedding,
                               r.value, min_similarity)
          IN
          /\ last_call' = CallRecord(client, o)
          /\ embed_calls' = embed_calls + (IF r.value = None THEN 2 ELSE 1)
          /\ IF failed
             THEN /\ pc' = "done"
                  /\ error' = IF r.raised THEN "embedding" ELSE "ValueError"
                  /\ UNCHANGED <<idx, scored_entries, result>>
             ELSE /\ scored_entries' = scored
                  /\ error' = error
                  /\ IF idx < Len(entries)
                     THEN pc' = "score" /\ idx' = idx + 1 /\ result' = result
                     ELSE IF NoGoodMatches(scored)
                     THEN pc' = "keyword" /\ idx' = idx /\ result' = result
                     ELSE /\ pc' = "done" /\ idx' = idx
                          /\ result' = RankTopK(scored, top_k)
    /\ UNCHANGED <<store, client, route, op, query, filters, top_k, field,
                   min_similarity, query_embedding, entries, suggestions,
                   db_queries, db_error>>
    /\ UNCHANGED <<writeVars, parked>>

\* One iteration of the for loop; after the last one the code falls back to
\* keyword search when nothing was retained, else sorts and returns top_k.
ScoreEntry ==
    /\ pc = "score"
    /\ \E o \in ApiOutcomes :
          LET r == generate_embedding(client, o)
              failed == r.raised \/ (r.value # None /\
                            cosine_similarity(query_embedding, r.value).raised)
              scored == Scored(scored_entries, entries[idx], query_embedding,
                               r.value, min_similarity)
          IN
          /\ last_call' = CallRecord(client, o)
          /\ embed_calls' = embed_calls + 1
          /\ IF failed
             THEN /\ pc' = "done"
                  /\ error' = IF r.raised THEN "embedding" ELSE "ValueError"
                  /\ UNCHANGED <<idx, scored_entries, result>>
             ELSE /\ scored_entries' = scored
                  /\ error' = error
                  /\ IF idx < Len(entries)
                     THEN pc' = "score" /\ idx' = idx + 1 /\ result' = result
                     ELSE IF NoGoodMatches(scored)
                     THEN pc' = "keyword" /\ idx' = idx /\ result' = result
                     ELSE /\ pc' = "done" /\ idx' = idx
                          /\ result' = RankTopK(scored, top_k)
    /\ UNCHANGED <<store, client, route, op, query, filters, top_k, field,
                   min_similarity, query_embedding, entries, suggestions,
                   db_queries, db_error>>
    /\ UNCHANGED <<writeVars, parked>>

\* The fallback call made without the caller's filters.
KeywordFallbackDropsFilters ==
    /\ pc = "keyword"
    /\ db_queries' = db_queries + 1
    /\ \E ok \in BOOLEAN :
          IF ~ok
          THEN pc' = "done" /\ error' = "store" /\ db_error' = TRUE /\ result' = result
          ELSE /\ pc' = "done" /\ error' = error /\ db_error' = db_error
               /\ result' = keyword_search_fallback(store, query, NoFilters, top_k)
    /\ UNCHANGED <<store, client, route, op, query, filters, top_k, field,
                   min_similarity, query_embedding, entries, idx, scored_entries,
                   suggestions, last_call, embed_calls>>
    /\ UNCHANGED <<writeVars, parked>>

\* return await keyword_search_fallback(db, query, filters, top_k)
KeywordFallback ==
    /\ pc = "keyword"
    /\ db_queries' = db_queries + 1
    /\ \E ok \in BOOLEAN :
          IF ~ok
          THEN pc' = "done" /\ error' = "store" /\ db_error' = TRUE /\ result' = result
          ELSE /\ pc' = "done" /\ error' = error /\ db_error' = db_error
               /\ result' = keyword_search_fallback(store, query, filters, top_k)
    /\ UNCHANGED <<store, client, route, op, query, filters, top_k, field,
                   min_similarity, query_embedding, entries, idx, scored_entries,
                   suggestions, last_call, embed_calls>>
    /\ UNCHANGED <<writeVars, parked>>

\* keyword_search called on its own.
KeywordSearchCall ==
    /\ pc = "idle"
    /\ \E q \in Queries, f \in FilterPool, k \in TopKs :
          /\ pc' = "keyword"
          /\ op' = "keyword_search"
          /\ query' = q
          /\ filters' = f
          /\ top_k' = k
    /\ UNCHANGED <<store, client, route, field, min_similarity, query_embedding,
                   entries, idx, scored_entries, result, suggestions, error,
                   last_call, embed_calls, db_queries, db_error>>
    /\ UNCHANGED <<writeVars, parked>>

\* search_autocomplete(db, query, field, limit): one record-store query.
EnterSearchAutocomplete(q, fld, k) ==
    /\ op' = "search_autocomplete"
    /\ query' = q
    /\ field' = fld
    /\ top_k' = k
    /\ pc' = "done"
    /\ db_queries' = db_queries + 1
    /\ \E ok \in BOOLEAN :
          IF ~ok
          THEN error' = "store" /\ db_error' = TRUE /\ suggestions' = suggestions
          ELSE /\ error' = error /\ db_error' = db_error
               /\ suggestions' \in search_autocomplete(store, q, fld, k)
    /\ UNCHANGED <<store, client, filters, min_similarity, query_embedding,
                   entries, idx, scored_entries, result, last_call, embed_calls>>
    /\ UNCHANGED <<writeVars, parked>>

\* A direct call of the service function, with any arguments.
SearchAutocompleteCall ==
    /\ pc = "idle"
    /\ route' = route
    /\ \E q \in Queries, fld \in Fields, k \in TopKs :
          EnterSearchAutocomplete(q, fld, k)

\* Query(..., min_length=1) and Query(10, ge=1, le=50) of the autocomplete
\* route; the path parameter field is a str without constraints.
AutocompleteValid(q, k) == Len(q) >= 1 /\ k >= 1 /\ k <= RouteMaxTopK

\* GET /autocomplete/{field}: the handler passes q, field and limit on to
\* search_autocomplete and wraps the list it returns.
Autocomplete ==
    /\ pc = "idle"
    /\ route' = "autocomplete"
    /\ \E q \in Queries, fld \in Fields, k \in TopKs :
          IF AutocompleteValid(q, k)
          THEN EnterSearchAutocomplete(q, fld, k)
          ELSE /\ pc' = "done"
               /\ query' = q
               /\ field' = fld
               /\ top_k' = k
               /\ error' = "validation"
               /\ UNCHANGED <<store, client, op, filters, min_similarity,
                              query_embedding, entries, idx, scored_entries,
                              result, suggestions, last_call, embed_calls,
                              db_queries, db_error>>
               /\ UNCHANGED <<writeVars, parked>>

(***************************************************************************)
(* Diagnosis guidance (services/checklist_service.py): GET                 *)
(* /checklist/by-diagnosis/ calls search_requirements_by_diagnosis, which  *)
(* calls semantic_search and, when that raises, runs a query of its own.   *)
(***************************************************************************)
\* Diagnosis texts of the model: one the route rejects (min_length=2), one
\* that occurs in descriptions, one holding a LIKE wildcard.
Diagnoses == { <<"a">>, <<"a", "c">>, <<"%", "b">> }

\* filters={"knowledge_type": KnowledgeType.DIAGNOSIS_SPECIALTY.value}
DiagnosisFilters == Filters(NULL, NULL, NULL, "diagnosis_specialty", {})

\* Query(..., min_length=2) and Query(10, ge=1, le=50) of the route.
DiagnosisGuidanceValid(diagnosis, limit) ==
    Len(diagnosis) >= 2 /\ limit >= 1 /\ limit <= RouteMaxTopK

\* GET /checklist/by-diagnosis/: the handler calls
\* search_requirements_by_diagnosis(db, diagnosis, limit), whose try block
\* calls semantic_search(db, query=diagnosis, filters=..., top_k=limit).
GetDiagnosisGuidance ==
    /\ pc = "idle"
    /\ route' = "diagnosis-guidance"
    /\ \E diagnosis \in Diagnoses, limit \in TopKs :
          IF DiagnosisGuidanceValid(diagnosis, limit)
          THEN EnterSemanticSearch(diagnosis, DiagnosisFilters, limit,
                                   DefaultMinSimilarity)
          ELSE /\ pc' = "done"
               /\ query' = diagnosis
               /\ top_k' = limit
               /\ error' = "validation"
               /\ UNCHANGED <<store, client, op, filters, field, min_similarity,
                              query_embedding, entries, idx, scored_entries,
                              result, suggestions, last_call, embed_calls,
                              db_queries, db_error>>
               /\ UNCHANGED <<writeVars, parked>>

\* "confidence": 0.5 of the except block
FallbackConfidence == 25

\* The except block's query without its knowledge_type clause.
DiagnosisFallbackRowsAnyType(db, diagnosis, limit) ==
    LET rows == SelectSeq(db, LAMBDA e :
                    /\ e.status = "published"
                    /\ ilike(e.knowledge_description, Wrap(diagnosis)))
        kept == Limit(rows, limit)
    IN  [i \in 1..Len(kept) |-> [entry |-> kept[i], score |-> FallbackConfidence]]

\* The except block's query: published, description ILIKE %diagnosis%,
\* knowledge_type diagnosis_specialty, LIMIT limit; confidence 0.5.
DiagnosisFallbackRows(db, diagnosis, limit) ==
    LET rows == SelectSeq(db, LAMBDA e :
                    /\ e.status = "published"
                    /\ ilike(e.knowledge_description, Wrap(diagnosis))
                    /\ e.knowledge_type = "diagnosis_specialty")
        kept == Limit(rows, limit)
    IN  [i \in 1..Len(kept) |-> [entry |-> kept[i], score |-> FallbackConfidence]]

\* semantic_search raised inside search_requirements_by_diagnosis and the
\* except block has not run yet.
GuidancePending ==
    route = "diagnosis-guidance" /\ op = "semantic_search" /\ error # "none"

\* except Exception: the function's own query, on the session semantic_search
\* used.  A failure of this query raises to the route.
DiagnosisFallback ==
    /\ pc = "done"
    /\ GuidancePending
    /\ op' = "search_requirements_by_diagnosis"
    /\ db_queries' = db_queries + 1
    /\ \E ok \in BOOLEAN :
          IF ~ok
          THEN error' = "store" /\ result' = result
          ELSE /\ error' = "none"
               /\ result' = DiagnosisFallbackRows(store, query, top_k)
    /\ UNCHANGED <<store, client, pc, route, query, filters, top_k, field,
                   min_similarity, query_embedding, entries, idx, scored_entries,
                   suggestions, last_call, embed_calls, db_error>>
    /\ UNCHANGED <<writeVars, parked>>

\* The end of a request deleting the unpublished rows.
ReturnPurgesDrafts ==
    /\ pc = "done"
    /\ ~GuidancePending
    /\ pc' = "idle"
    /\ route' = "none"
    /\ op' = "none"
    /\ query' = <<>>
    /\ filters' = NoFilters
    /\ top_k' = 0
    /\ field' = "none"
    /\ min_similarity' = DefaultMinSimilarity
    /\ query_embedding' = None
    /\ entries' = <<>>
    /\ idx' = 0
    /\ scored_entries' = <<>>
    /\ result' = <<>>
    /\ suggestions' = <<>>
    /\ error' = "none"
    /\ last_call' = NoCall
    /\ embed_calls' = 0
    /\ db_queries' = 0
    /\ db_error' = FALSE
    /\ store' = SelectSeq(store, LAMBDA e : e.status = "published")
    /\ UNCHANGED client
    /\ UNCHANGED <<writeVars, parked>>

\* The response went out; the next request starts from a fresh frame.
Return ==
    /\ pc = "done"
    /\ ~GuidancePending
    /\ pc' = "idle"
    /\ route' = "none"
    /\ op' = "none"
    /\ query' = <<>>
    /\ filters' = NoFilters
    /\ top_k' = 0
    /\ field' = "none"
    /\ min_similarity' = DefaultMinSimilarity
    /\ query_embedding' = None
    /\ entries' = <<>>
    /\ idx' = 0
    /\ scored_entries' = <<>>
    /\ result' = <<>>
    /\ suggestions' = <<>>
    /\ error' = "none"
    /\ last_call' = NoCall
    /\ embed_calls' = 0
    /\ db_queries' = 0
    /\ db_error' = FALSE
    /\ UNCHANGED <<store, client>>
    /\ UNCHANGED <<writeVars, parked>>

Next ==
    \/ SemanticSearchCall
    \/ IntelligentSearch
    \/ QueryEmbedding
    \/ FetchEntries
    \/ ScoreEntry
    \/ KeywordFallback
    \/ KeywordSearchCall
    \/ SearchAutocompleteCall
    \/ Autocomplete
    \/ Return

Spec == Init /\ [][Next]_vars

\* The diagnosis guidance requests on their own.
GuidanceNext ==
    \/ GetDiagnosisGuidance
    \/ QueryEmbedding
    \/ FetchEntries
    \/ ScoreEntry
    \/ KeywordFallback
    \/ DiagnosisFallback
    \/ Return

GuidanceSpec == Init /\ [][GuidanceNext]_vars

(***************************************************************************)
(* Two search requests served concurrently.  Each request is a coroutine   *)
(* with its own locals; the event loop may leave one suspended at an await *)
(* and run the other.  The running request's locals are the variables of   *)
(* the model, the suspended request's are in `parked`.                     *)
(***************************************************************************)
RunningFrame ==
    Frame(pc, route, op, query, filters, top_k, field, min_similarity,
          query_embedding, entries, idx, scored_entries, result, suggestions,
          error, last_call, embed_calls, db_queries, db_error)

\* The switch with scored_entries held in one module-level list that both
\* requests append to.
SwitchSharingScoredEntries ==
    /\ parked # RunningFrame
    /\ parked' = RunningFrame
    /\ pc' = parked.pc
    /\ route' = parked.route
    /\ op' = parked.op
    /\ query' = parked.query
    /\ filters' = parked.filters
    /\ top_k' = parked.top_k
    /\ field' = parked.field
    /\ min_similarity' = parked.min_similarity
    /\ query_embedding' = parked.query_embedding
    /\ entries' = parked.entries
    /\ idx' = parked.idx
    /\ scored_entries' = scored_entries
    /\ result' = parked.result
    /\ suggestions' = parked.suggestions
    /\ error' = parked.error
    /\ last_call' = parked.last_call
    /\ embed_calls' = parked.embed_calls
    /\ db_queries' = parked.db_queries
    /\ db_error' = parked.db_error
    /\ UNCHANGED <<store, client, writeVars>>

\* The event loop suspends the running request and resumes the other one:
\* every local belongs to its coroutine, the store and the client are shared.
Switch ==
    /\ parked # RunningFrame
    /\ parked' = RunningFrame
    /\ pc' = parked.pc
    /\ route' = parked.route
    /\ op' = parked.op
    /\ query' = parked.query
    /\ filters' = parked.filters
    /\ top_k' = parked.top_k
    /\ field' = parked.field
    /\ min_similarity' = parked.min_similarity
    /\ query_embedding' = parked.query_embedding
    /\ entries' = parked.entries
    /\ idx' = parked.idx
    /\ scored_entries' = parked.scored_entries
    /\ result' = parked.result
    /\ suggestions' = parked.suggestions
    /\ error' = parked.error
    /\ last_call' = parked.last_call
    /\ embed_calls' = parked.embed_calls
    /\ db_queries' = parked.db_queries
    /\ db_error' = parked.db_error
    /\ UNCHANGED <<store, client, writeVars>>

\* The store the concurrent requests read: two published rows, of which the
\* knowledge_type filter passes one.
ConcurrentStore ==
    << Entry(1, 1, "published", <<"C", "a">>, 1, <<"b">>, 1, NULL,
             "diagnosis_specialty", FALSE, <<"a", "c">>),
       Entry(2, 2, "published", <<"b">>, 2, <<"A", "c">>, 2, <<"a">>,
             "general_knowledge", TRUE, <<"b">>) >>

ConcurrentInit ==
    /\ store = ConcurrentStore
    /\ client = TRUE
    /\ InitFrame

\* semantic_search is called with or without the knowledge_type filter.
ConcurrentSearchCall ==
    /\ pc = "idle"
    /\ route' = route
    /\ \E f \in { NoFilters, DiagnosisFilters } :
          EnterSemanticSearch(<<"a">>, f, MaxTopK, DefaultMinSimilarity)

ConcurrentNext ==
    \/ ConcurrentSearchCall
    \/ QueryEmbedding
    \/ FetchEntries
    \/ ScoreEntry
    \/ KeywordFallback
    \/ Return
    \/ Switch

ConcurrentSpec == ConcurrentInit /\ [][ConcurrentNext]_vars

(***************************************************************************)
(* Knowledge entry writes (services/knowledge_service.py): batch creation, *)
(* update and delete.  The session of a request holds the entries it added *)
(* until db.commit() makes them rows of the store.                         *)
(***************************************************************************)
MaxWrites == 2

\* Rows of the facilities and specialties tables, and the MA assignments
\* (user_facilities, user_specialties) as <<user id, facility/specialty id>>.
FacilityTable == { [id |-> 1, name |-> <<"C", "a">>], [id |-> 2, name |-> <<"b">>] }
SpecialtyTable == { [id |-> 1, name |-> <<"b">>], [id |-> 2, name |-> <<"A", "c">>] }
UserFacility == { <<1, 1>>, <<2, 1>>, <<2, 2>> }
UserSpecialty == { <<1, 1>>, <<2, 1>>, <<2, 2>> }

\* select(...).where(name == text) ... scalar_one_or_none(): the rows found.
Lookup(table, text) == { r \in table : r.name = text }

\* _validate_ma_assignment: the status it raises with, or "ok".
ValidateMaAssignment(u, facility_text, specialty_text) ==
    IF Lookup(FacilityTable, facility_text) = {} THEN "400"
    ELSE IF Lookup(SpecialtyTable, specialty_text) = {} THEN "400"
    ELSE IF u.role # "MA" THEN "ok"
    ELSE IF \A f \in Lookup(FacilityTable, facility_text) : <<u.id, f.id>> \notin UserFacility
         THEN "403"
    ELSE IF \A s \in Lookup(SpecialtyTable, specialty_text) : <<u.id, s.id>> \notin UserSpecialty
         THEN "403"
    ELSE "ok"

\* KnowledgeEntryCreate payloads: one every user may submit, one of a facility
\* and specialty only user 2 is assigned to, one naming an unknown facility
\* and one naming an unknown specialty.
CreateData(fac, spec, prov, kt, cc, desc, st) ==
    [facility |-> fac, specialty_service |-> spec, provider_name |-> prov,
     knowledge_type |-> kt, is_continuity_care |-> cc,
     knowledge_description |-> desc, status |-> st]

CreateForAll == CreateData(<<"C", "a">>, <<"b">>, NULL, "diagnosis_specialty", FALSE,
                           <<"a", "c">>, "published")
CreateForUser2 == CreateData(<<"b">>, <<"A", "c">>, <<"a">>, "general_knowledge", TRUE,
                             <<"b">>, "draft")
CreateUnknownFacility == CreateData(<<"c">>, <<"b">>, NULL, "general_knowledge", FALSE,
                                    <<"b">>, "published")
CreateUnknownSpecialty == CreateData(<<"b">>, <<"a">>, NULL, "general_knowledge", FALSE,
                                     <<"b">>, "published")

\* Batches submitted: empty, all valid, and invalid at the first, second or
\* third entry.
Batches ==
    { <<>>,
      <<CreateForAll>>,
      <<CreateUnknownFacility>>,
      <<CreateForAll, CreateForUser2>>,
      <<CreateForUser2, CreateForAll>>,
      <<CreateForAll, CreateUnknownSpecialty>>,
      <<CreateForAll, CreateForAll, CreateUnknownFacility>> }

\* A fresh uuid: an id no row of the store and no entry of the session has.
FreshId(db, session) ==
    CHOOSE i \in 1..(Len(db) + Len(session) + 1) :
        /\ \A j \in DOMAIN db : db[j].id # i
        /\ \A j \in DOMAIN session : session[j].id # i
        /\ \A k \in 1..(i - 1) :
              \/ \E j \in DOMAIN db : db[j].id = k
              \/ \E j \in DOMAIN session : session[j].id = k

\* The ids _validate_ma_assignment returns: facility.id and specialty.id of
\* the rows it looked up by name.
FacilityId(facility_text) == (CHOOSE f \in Lookup(FacilityTable, facility_text) : TRUE).id
SpecialtyId(specialty_text) == (CHOOSE sp \in Lookup(SpecialtyTable, specialty_text) : TRUE).id

\* KnowledgeEntry(user_id=user.id, ..., facility_id=facility_id,
\* specialty_id=specialty_id, ..., status=entry_data.status)
NewEntry(i, u, data) ==
    Entry(i, u.id, data.status, data.facility, FacilityId(data.facility),
          data.specialty_service, SpecialtyId(data.specialty_service),
          data.provider_name, data.knowledge_type, data.is_continuity_care,
          data.knowledge_description)

Updates ==
    { NoData,
      UpdateData({}, {}, {}, {}, {}, {}, {"draft"}),
      UpdateData({}, {}, {<<"b">>}, {}, {TRUE}, {<<"a">>}, {}),
      UpdateData({<<"b">>}, {}, {}, {}, {}, {}, {}) }

\* if entry_data.<field> is not None: entry.<field> = entry_data.<field>
Provided(old, new) == IF new # {} THEN CHOOSE v \in new : TRUE ELSE old

ApplyUpdate(e, data) ==
    [id |-> e.id, user_id |-> e.user_id,
     status |-> Provided(e.status, data.status),
     facility |-> Provided(e.facility, data.facility),
     facility_id |-> e.facility_id,
     specialty_service |-> Provided(e.specialty_service, data.specialty_service),
     specialty_id |-> e.specialty_id,
     provider_name |-> Provided(e.provider_name, data.provider_name),
     knowledge_type |-> Provided(e.knowledge_type, data.knowledge_type),
     is_continuity_care |-> Provided(e.is_continuity_care, data.is_continuity_care),
     knowledge_description |-> Provided(e.knowledge_description, data.knowledge_description)]

EntryIds == 1..(MaxRecords + 1)

\* The select of update and delete with its user_id clause left out.
OwnedEntryByIdOnly(db, eid, uid) ==
    { j \in DOMAIN db : db[j].id = eid }

\* select(KnowledgeEntry).where(id == entry_id, user_id == user_id): the
\* positions of the rows found.
OwnedEntry(db, eid, uid) ==
    { j \in DOMAIN db : db[j].id = eid /\ db[j].user_id = uid }

Remove(db, j) == SubSeq(db, 1, j - 1) \o SubSeq(db, j + 1, Len(db))

WriteInit ==
    /\ store \in Stores
    /\ client = TRUE
    /\ InitFrame

\* KnowledgeEntryCreate payloads submitted one at a time.
CreatePayloads ==
    { CreateForAll, CreateForUser2, CreateUnknownFacility, CreateUnknownSpecialty }

\* create_knowledge_entry(db, entry_data, user): _validate_ma_assignment
\* (which raises 400 or 403, or whose queries fail), db.add(entry),
\* db.commit(), db.refresh(entry).  A refresh that fails raises after the
\* commit.
CreateKnowledgeEntry ==
    /\ pc = "idle"
    /\ writes < MaxWrites
    /\ Len(store) < MaxRecords
    /\ pc' = "done"
    /\ op' = "create_knowledge_entry"
    /\ store_at_call' = store
    /\ writes' = writes + 1
    /\ db_queries' = db_queries + 1
    /\ \E u \in Users, data \in CreatePayloads,
          outcome \in {"query fails", "commit fails", "refresh fails", "ok"} :
          LET verdict == ValidateMaAssignment(u, data.facility, data.specialty_service)
          IN
          /\ user' = u
          /\ IF outcome = "query fails"
             THEN /\ error' = "store" /\ db_error' = TRUE
                  /\ UNCHANGED <<store, returned>>
             ELSE IF verdict # "ok"
             THEN /\ error' = verdict /\ db_error' = db_error
                  /\ UNCHANGED <<store, returned>>
             ELSE /\ store' = IF outcome = "commit fails" THEN store
                              ELSE Append(store, NewEntry(FreshId(store, <<>>), u, data))
                  /\ error' = IF outcome = "ok" THEN error ELSE "store"
                  /\ db_error' = (outcome # "ok")
                  /\ returned' = IF outcome = "ok" THEN "entry" ELSE returned
    /\ UNCHANGED <<searchVars, parked>>
    /\ UNCHANGED <<idx, entry_id, entry_data, entries_data, created_entries>>

\* create_knowledge_entries_batch(db, entries_data, user) is called.
CreateKnowledgeEntriesBatch ==
    /\ pc = "idle"
    /\ writes < MaxWrites
    /\ \E u \in Users, batch \in Batches :
          /\ Len(store) + Len(batch) <= MaxRecords
          /\ user' = u
          /\ entries_data' = batch
          /\ pc' = IF batch = <<>> THEN "commit" ELSE "validate"
          /\ idx' = IF batch = <<>> THEN 0 ELSE 1
    /\ op' = "create_knowledge_entries_batch"
    /\ created_entries' = <<>>
    /\ store_at_call' = store
    /\ writes' = writes + 1
    /\ UNCHANGED <<searchVars, parked>>
    /\ UNCHANGED <<store, error, db_queries, db_error, entry_id, entry_data, returned>>

\* One iteration of the loop committing the entry it built, as
\* create_knowledge_entry does.
BatchEntryCommitsEach ==
    /\ pc = "validate"
    /\ LET data == entries_data[idx]
           verdict == ValidateMaAssignment(user, data.facility, data.specialty_service)
       IN
       /\ db_queries' = db_queries + 1
       /\ \E ok \in BOOLEAN :
             IF ~ok
             THEN /\ pc' = "done" /\ error' = "store" /\ db_error' = TRUE
                  /\ UNCHANGED <<idx, created_entries, store>>
             ELSE IF verdict # "ok"
             THEN /\ pc' = "done" /\ error' = verdict /\ db_error' = db_error
                  /\ UNCHANGED <<idx, created_entries, store>>
             ELSE /\ created_entries' =
                        Append(created_entries,
                               NewEntry(FreshId(store, created_entries), user, data))
                  /\ store' = Append(store, NewEntry(FreshId(store, created_entries), user, data))
                  /\ error' = error /\ db_error' = db_error
                  /\ IF idx < Len(entries_data)
                     THEN pc' = "validate" /\ idx' = idx + 1
                     ELSE pc' = "commit" /\ idx' = idx
    /\ UNCHANGED <<searchVars, parked>>
    /\ UNCHANGED <<op, user, entry_id, entry_data, entries_data, returned,
                   store_at_call, writes>>

\* One iteration of the loop: _validate_ma_assignment (which raises 400 or 403,
\* or whose queries fail), then db.add(entry); created_entries.append(entry).
BatchEntry ==
    /\ pc = "validate"
    /\ LET data == entries_data[idx]
           verdict == ValidateMaAssignment(user, data.facility, data.specialty_service)
       IN
       /\ db_queries' = db_queries + 1
       /\ \E ok \in BOOLEAN :
             IF ~ok
             THEN /\ pc' = "done" /\ error' = "store" /\ db_error' = TRUE
                  /\ UNCHANGED <<idx, created_entries>>
             ELSE IF verdict # "ok"
             THEN /\ pc' = "done" /\ error' = verdict /\ db_error' = db_error
                  /\ UNCHANGED <<idx, created_entries>>
             ELSE /\ created_entries' =
                        Append(created_entries,
                               NewEntry(FreshId(store, created_entries), user, data))
                  /\ error' = error /\ db_error' = db_error
                  /\ IF idx < Len(entries_data)
                     THEN pc' = "validate" /\ idx' = idx + 1
                     ELSE pc' = "commit" /\ idx' = idx
    /\ UNCHANGED <<searchVars, parked>>
    /\ UNCHANGED <<store, op, user, entry_id, entry_data, entries_data, returned,
                   store_at_call, writes>>

\* await db.commit(), the refresh of every entry, and the return.  The commit
\* is one transaction; a refresh that fails raises after the commit.
BatchCommit ==
    /\ pc = "commit"
    /\ pc' = "done"
    /\ \E outcome \in {"commit fails", "refresh fails", "ok"} :
          /\ store' = IF outcome = "commit fails" THEN store
                      ELSE store \o created_entries
          /\ error' = IF outcome = "ok" THEN error ELSE "store"
          /\ db_error' = (outcome # "ok")
          /\ returned' = IF outcome = "ok" THEN "created_entries" ELSE returned
    /\ UNCHANGED <<searchVars, parked>>
    /\ UNCHANGED <<op, idx, db_queries, user, entry_id, entry_data, entries_data,
                   created_entries, store_at_call, writes>>

\* PUT /{entry_id}: update_knowledge_entry(db, entry_id, entry_data,
\* current_user.id) for an MA, and 404 when it returns None.
UpdateEntry ==
    /\ pc = "idle"
    /\ writes < MaxWrites
    /\ pc' = "done"
    /\ op' = "update_knowledge_entry"
    /\ route' = "update_entry"
    /\ store_at_call' = store
    /\ writes' = writes + 1
    /\ db_queries' = db_queries + 1
    /\ \E u \in { x \in Users : x.role = "MA" }, eid \in EntryIds,
          data \in Updates, ok \in BOOLEAN :
          /\ user' = u
          /\ entry_id' = eid
          /\ entry_data' = data
          /\ IF ~ok
             THEN /\ error' = "store" /\ db_error' = TRUE
                  /\ UNCHANGED <<store, returned>>
             ELSE IF OwnedEntry(store, eid, u.id) = {}
             THEN /\ returned' = "None" /\ error' = "404" /\ db_error' = db_error
                  /\ store' = store
             ELSE \E j \in OwnedEntry(store, eid, u.id) :
                     /\ store' = [store EXCEPT ![j] = ApplyUpdate(store[j], data)]
                     /\ returned' = "entry"
                     /\ error' = error /\ db_error' = db_error
    /\ UNCHANGED <<client, query, filters, top_k, field, min_similarity,
                   query_embedding, entries, scored_entries, result, suggestions,
                   last_call, embed_calls, parked>>
    /\ UNCHANGED <<idx, entries_data, created_entries>>

\* DELETE /{entry_id}: delete_knowledge_entry(db, entry_id, current_user.id)
\* for an MA, and 404 when it returns False.
DeleteEntry ==
    /\ pc = "idle"
    /\ writes < MaxWrites
    /\ pc' = "done"
    /\ op' = "delete_knowledge_entry"
    /\ route' = "delete_entry"
    /\ store_at_call' = store
    /\ writes' = writes + 1
    /\ db_queries' = db_queries + 1
    /\ \E u \in { x \in Users : x.role = "MA" }, eid \in EntryIds, ok \in BOOLEAN :
          /\ user' = u
          /\ entry_id' = eid
          /\ IF ~ok
             THEN /\ error' = "store" /\ db_error' = TRUE
                  /\ UNCHANGED <<store, returned>>
             ELSE IF OwnedEntry(store, eid, u.id) = {}
             THEN /\ returned' = "False" /\ error' = "404" /\ db_error' = db_error
                  /\ store' = store
             ELSE \E j \in OwnedEntry(store, eid, u.id) :
                     /\ store' = Remove(store, j)
                     /\ returned' = "True"
                     /\ error' = error /\ db_error' = db_error
    /\ UNCHANGED <<client, query, filters, top_k, field, min_similarity,
                   query_embedding, entries, scored_entries, result, suggestions,
                   last_call, embed_calls, parked>>
    /\ UNCHANGED <<idx, entry_data, entries_data, created_entries>>

\* The response went out and the session of the request is closed: what it
\* had not committed is gone ("Rollback is handled by get_db() dependency").
WriteReturn ==
    /\ pc = "done"
    /\ pc' = "idle"
    /\ route' = "none"
    /\ op' = "none"
    /\ idx' = 0
    /\ error' = "none"
    /\ db_queries' = 0
    /\ db_error' = FALSE
    /\ user' = NoUser
    /\ entry_id' = 0
    /\ entry_data' = NoData
    /\ entries_data' = <<>>
    /\ created_entries' = <<>>
    /\ returned' = NotReturned
    /\ store_at_call' = <<>>
    /\ UNCHANGED <<store, writes>>
    /\ UNCHANGED <<client, query, filters, top_k, field, min_similarity,
                   query_embedding, entries, scored_entries, result, suggestions,
                   last_call, embed_calls, parked>>

WriteNext ==
    \/ CreateKnowledgeEntry
    \/ CreateKnowledgeEntriesBatch
    \/ BatchEntry
    \/ BatchCommit
    \/ UpdateEntry
    \/ DeleteEntry
    \/ WriteReturn

WriteSpec == WriteInit /\ [][WriteNext]_vars

(***************************************************************************)
(* The degraded-mode scenario: one multi-word query under the knowledge    *)
(* type filter diagnosis_specialty, on stores that also hold rows          *)
(* containing the whole query text.                                        *)
(***************************************************************************)
\* The query text of the scenario: several words, "Cab" for short.
ScenarioQuery == <<"C", "a", "b">>

ScenarioFilters == Filters(NULL, NULL, NULL, "diagnosis_specialty", {})

\* EntryPool plus two published diagnosis rows holding the whole query text,
\* one in its description and one in its provider only.
ScenarioPool ==
    EntryPool \cup
    { Entry(5, 2, "published", <<"b">>, 2, <<"b">>, 1, NULL,
            "diagnosis_specialty", FALSE, <<"a", "c", "a", "b">>),
      Entry(6, 2, "published", <<"b">>, 2, <<"b">>, 1, <<"c", "a", "b">>,
            "diagnosis_specialty", TRUE, <<"b">>) }

ScenarioStores ==
    { s \in UNION { [1..n -> ScenarioPool] : n \in 0..MaxRecords } :
        \A i, j \in DOMAIN s : i # j => s[i] # s[j] }

DegradedInit ==
    /\ store \in ScenarioStores
    /\ client \in BOOLEAN
    /\ InitFrame

\* semantic_search(db, query, {"knowledge_type": "diagnosis_specialty"}, top_k)
DegradedScenarioCall ==
    /\ pc = "idle"
    /\ route' = route
    /\ \E k \in TopKs, m \in MinSimilarities :
          EnterSemanticSearch(ScenarioQuery, ScenarioFilters, k, m)

DegradedNext ==
    \/ DegradedScenarioCall
    \/ QueryEmbedding
    \/ FetchEntries
    \/ ScoreEntry
    \/ KeywordFallback
    \/ Return

DegradedSpec == DegradedInit /\ [][DegradedNext]_vars

(***************************************************************************)
(* Properties.                                                             *)
(***************************************************************************)
\* semantic_search returned a list to its caller.
SemanticDone == op = "semantic_search" /\ pc = "done" /\ error = "none"

Scores(list) == { list[i].score : i \in DOMAIN list }

\* sub occurs in text as a case-insensitive substring, character by character.
Contains(text, sub) ==
    /\ text # NULL
    /\ \E i \in 0..Len(text) :
          /\ i + Len(sub) <= Len(text)
          /\ \A j \in 1..Len(sub) : Lower(text[i + j]) = Lower(sub[j])

\* C1 Fallback totality: when the query embedding is Unavailable (the only
\* adapter call of the request, so every call was Unavailable), the list
\* semantic_search returns is the list keyword_search returns for the same
\* query, filters and top_k on the same store: same records, order and scores.
C1_FallbackTotality ==
    (SemanticDone /\ query_embedding = None)
        => result = keyword_search_fallback(store, query, filters, top_k)

C1_Witness ==
    /\ SemanticDone /\ query_embedding = None
    /\ client /\ last_call.failure
    /\ filters # NoFilters /\ Len(result) >= 1
    /\ Len(result) < Len(keyword_search_fallback(store, query, NoFilters, top_k))

\* C2 as claimed: with the query embedding available, every returned result
\* has a score >= min_similarity, for every min_similarity.
C2_AllResultsAboveThreshold ==
    (SemanticDone /\ query_embedding # None)
        => \A i \in DOMAIN result : result[i].score >= min_similarity

\* C2 as amended: with the query embedding available, every returned result
\* has a score >= min_similarity whenever some candidate was retained; when
\* none was, the list is the keyword fallback's and every score is 0.5.
C2_RetainedAboveThreshold ==
    (SemanticDone /\ query_embedding # None)
        => IF scored_entries # <<>>
           THEN \A i \in DOMAIN result : result[i].score >= min_similarity
           ELSE \A i \in DOMAIN result : result[i].score = KeywordScore

C2_Witness ==
    /\ SemanticDone /\ query_embedding # None
    /\ min_similarity > DefaultMinSimilarity
    /\ Len(result) >= 1
    /\ Len(scored_entries) >= 1
    /\ Len(scored_entries) < Len(entries)
    /\ last_call.call.kind = "ok"
    /\ Scores(result) = {50}

\* C3 Inconclusive-semantic fallback: with the query embedding available, a
\* non-empty candidate set and no candidate retained, semantic_search returns
\* the list keyword_search returns for the same query, filters and top_k.
C3_InconclusiveFallback ==
    (SemanticDone /\ query_embedding # None /\ entries # <<>> /\ scored_entries = <<>>)
        => result = keyword_search_fallback(store, query, filters, top_k)

C3_Witness ==
    /\ SemanticDone /\ query_embedding # None
    /\ entries # <<>> /\ scored_entries = <<>>
    /\ last_call.call.kind = "ok"
    /\ Len(result) >= 1

\* C4 Ranking order: with the query embedding available, adjacent results of
\* the returned list have non-increasing scores.
C4_RankingOrder ==
    (SemanticDone /\ query_embedding # None)
        => \A i \in 1..(Len(result) - 1) : result[i].score >= result[i + 1].score

C4_Witness ==
    /\ SemanticDone /\ query_embedding # None
    /\ Len(result) >= 2 /\ Len(scored_entries) >= 2
    /\ result[1].score > result[2].score
    /\ scored_entries[1].score < scored_entries[2].score

\* C5 top_k bound: for top_k >= 1 the list semantic_search or keyword_search
\* returns is no longer than top_k, on the semantic and both fallback paths.
C5_TopKBound ==
    (pc = "done" /\ error = "none" /\ top_k >= 1
     /\ op \in {"semantic_search", "keyword_search"})
        => Len(result) <= top_k

C5_Witness ==
    /\ SemanticDone /\ top_k >= 1
    /\ Len(scored_entries) > top_k
    /\ Len(result) = top_k

\* C6 Publication gate: every record in a returned result list is published,
\* and every autocomplete suggestion is the chosen field's value of some
\* published record.
C6_PublicationGate ==
    /\ \A i \in DOMAIN result : result[i].entry.status = "published"
    /\ \A i \in DOMAIN suggestions :
          \E j \in DOMAIN store :
             /\ store[j].status = "published"
             /\ Column(store[j], AutocompleteField(field)) = suggestions[i]

C6_Witness ==
    /\ SemanticDone /\ query_embedding # None
    /\ Len(result) >= 1 /\ scored_entries # <<>>
    /\ \E j \in DOMAIN store :
          store[j].status = "draft" /\ SemanticFilters(store[j], filters)

\* The structured filters read as the claim reads them: substrings, an exact
\* knowledge type, an equal continuity flag.
SatisfiesFilters(e, f) ==
    /\ f.facility # NULL => Contains(e.facility, f.facility)
    /\ f.specialty # NULL => Contains(e.specialty_service, f.specialty)
    /\ f.provider # NULL => Contains(e.provider_name, f.provider)
    /\ f.knowledge_type # "" => e.knowledge_type = f.knowledge_type
    /\ f.is_continuity_care # {} => e.is_continuity_care \in f.is_continuity_care

\* C7 Filter conjunction: every record keyword_search returns satisfies every
\* supplied structured filter (facility, specialty, provider as
\* case-insensitive substrings, knowledge type exactly, continuity flag equal).
C7_FilterConjunction ==
    (op = "keyword_search" /\ pc = "done" /\ error = "none")
        => \A i \in DOMAIN result : SatisfiesFilters(result[i].entry, filters)

\* C8 Uniform adapter failure: generate_embedding never raises; a call that
\* met any failure (no client, timeout, authentication, rate limit, network,
\* malformed response) returned None, and a call that met none returned a vector.
C8_UniformAdapterFailure ==
    /\ ~last_call.call.raised
    /\ last_call.failure => last_call.call.value = None
    /\ (~last_call.failure /\ last_call.call.kind # "none")
          => last_call.call.value \in Vectors

C8_Witness ==
    /\ last_call.failure
    /\ last_call.call.kind = "except Exception"
    /\ last_call.call.value = None
    /\ pc = "score"

\* C9 as claimed: semantic_search called with an empty query or top_k <= 0
\* ends in a validation error with no embedding call and no store query.
C9_ServiceValidates ==
    (op = "semantic_search" /\ (query = <<>> \/ top_k <= 0))
        => /\ embed_calls = 0
           /\ db_queries = 0
           /\ pc = "done" => error = "validation"

\* C9 as amended: the smart-search route called with an empty q or top_k <= 0
\* ends in a validation error before semantic_search is invoked: no embedding
\* call and no record-store query is issued.
C9_RouteValidates ==
    (route = "smart-search" /\ (query = <<>> \/ top_k <= 0))
        => /\ pc = "done"
           /\ error = "validation"
           /\ op = "none"
           /\ embed_calls = 0
           /\ db_queries = 0

C9_Witness ==
    /\ route = "smart-search"
    /\ query = <<>> /\ top_k >= 1
    /\ error = "validation"

\* C10 Degrade, never fail: semantic_search called with a non-empty query and
\* top_k >= 1 surfaces no error whatever the adapter calls return (the only
\* error it ends in is a failed record-store query), and until it has
\* returned its next step can always be taken.
C10_DegradeNeverFail ==
    (op = "semantic_search" /\ query # <<>> /\ top_k >= 1)
        => /\ error \in {"none", "store"}
           /\ pc # "done" =>
                 ENABLED (QueryEmbedding \/ FetchEntries \/ ScoreEntry \/ KeywordFallback)

C10_Witness ==
    /\ SemanticDone /\ query # <<>> /\ top_k >= 1
    /\ query_embedding # None
    /\ last_call.failure
    /\ Len(scored_entries) >= 1 /\ Len(result) >= 1
    /\ Len(scored_entries) + 2 <= Len(entries)

\* C11 Record-store failures are not masked: when a record-store query of
\* semantic_search, keyword_search or search_autocomplete raised, the operation
\* has ended in the store error, and no result list or suggestion list was
\* returned in its place.
C11_StoreFailureNotMasked ==
    db_error => /\ pc = "done"
                /\ error = "store"
                /\ result = <<>>
                /\ suggestions = <<>>

C11_Witness ==
    /\ db_error /\ error = "store"
    /\ op = "semantic_search"
    /\ query_embedding # None
    /\ db_queries = 1
    /\ \E j \in DOMAIN store : store[j].status = "published"

\* C12 Sentinel score: every result keyword_search returns, and every result
\* semantic_search returns through either fallback path (query embedding
\* unavailable, or no candidate retained), carries the score 0.5 exactly.
C12_SentinelScore ==
    (/\ pc = "done" /\ error = "none"
     /\ \/ op = "keyword_search"
        \/ op = "semantic_search" /\ (query_embedding = None \/ scored_entries = <<>>))
        => \A i \in DOMAIN result : result[i].score = KeywordScore

C12_Witness ==
    /\ SemanticDone /\ query_embedding = None
    /\ min_similarity > KeywordScore
    /\ Len(result) = 2
    /\ Scores(result) = {KeywordScore}

\* The query occurs in some text column of the row, read as the claim reads
\* it: a case-insensitive substring of description, specialty, facility or a
\* non-null provider.
OccursInSomeField(e, q) ==
    \/ Contains(e.knowledge_description, q)
    \/ Contains(e.specialty_service, q)
    \/ Contains(e.facility, q)
    \/ Contains(e.provider_name, q)

\* C13 Keyword match is an OR over fields: with no structured filters and
\* top_k at least the number of records, keyword_search returns a published
\* record if and only if the query occurs as a case-insensitive substring of
\* its description, specialty, facility or non-null provider.
C13_KeywordOrOverFields ==
    (/\ op = "keyword_search" /\ pc = "done" /\ error = "none"
     /\ filters = NoFilters /\ top_k >= Len(store))
        => \A j \in DOMAIN store :
              store[j].status = "published" =>
                 ((\E i \in DOMAIN result : result[i].entry = store[j])
                     <=> OccursInSomeField(store[j], query))

\* The values of the column the claim names for a field argument: the field
\* itself when it is provider, specialty or facility, else specialty.
ClaimedSource(db, q, fld) ==
    LET col(e) == CASE fld = "provider_name" -> e.provider_name
                    [] fld = "facility" -> e.facility
                    [] OTHER -> e.specialty_service
    IN  { col(db[j]) : j \in { n \in DOMAIN db : /\ db[n].status = "published"
                                                 /\ ilike(col(db[n]), Wrap(q)) } }

\* C14 Autocomplete field selection: called with provider, specialty or
\* facility the suggestions are drawn from that field of the records; called
\* with any other field value the call does not end in an error of its own and
\* the suggestions are drawn from the specialty field.  Drawn from: every
\* suggestion is a matching value of that field, and as many are returned as
\* the limit and the number of matching values allow.
C14_FieldSelection ==
    (op = "search_autocomplete" /\ pc = "done" /\ ~db_error)
        => /\ error = "none"
           /\ \A i \in DOMAIN suggestions :
                 suggestions[i] \in ClaimedSource(store, query, field)
           /\ Len(suggestions) = Min(top_k, Cardinality(ClaimedSource(store, query, field)))

C14_Witness ==
    /\ op = "search_autocomplete" /\ pc = "done" /\ error = "none"
    /\ route = "autocomplete"
    /\ field \notin ValidFields
    /\ Len(suggestions) = 1
    /\ \A j \in DOMAIN store :
          suggestions[1] \notin {store[j].facility, store[j].provider_name}

\* C15 Autocomplete result shape: the list search_autocomplete returns has no
\* duplicate value, has length <= limit, has no null value, and each value is
\* the chosen field's value of some published record and contains the partial
\* text as a case-insensitive substring.
C15_AutocompleteShape ==
    (op = "search_autocomplete" /\ pc = "done" /\ error = "none")
        => /\ \A i, j \in DOMAIN suggestions : i # j => suggestions[i] # suggestions[j]
           /\ Len(suggestions) <= top_k
           /\ \A i \in DOMAIN suggestions :
                 /\ suggestions[i] # NULL
                 /\ \E j \in DOMAIN store :
                       /\ store[j].status = "published"
                       /\ Column(store[j], AutocompleteField(field)) = suggestions[i]
                 /\ Contains(suggestions[i], query)

\* The keyword the scenario expects the fallback to match on: the leading word
\* of the query text, lower-cased.
ScenarioKeyword == <<"c">>

\* C16 Degraded-mode scenario: with the embedding adapter down, the scenario
\* query and the knowledge-type filter diagnosis_specialty, semantic_search
\* returns the set of published records of knowledge type diagnosis_specialty
\* whose description, specialty or facility contains the query's keyword as a
\* case-insensitive substring, each scored 0.5 (top_k not cutting the list).
C16_DegradedScenario ==
    (/\ SemanticDone /\ query = ScenarioQuery /\ filters = ScenarioFilters
     /\ query_embedding = None /\ last_call.failure
     /\ top_k >= Len(store))
        => /\ { result[i].entry : i \in DOMAIN result } =
                { store[j] : j \in { n \in DOMAIN store :
                    /\ store[n].status = "published"
                    /\ store[n].knowledge_type = "diagnosis_specialty"
                    /\ \/ Contains(store[n].knowledge_description, ScenarioKeyword)
                       \/ Contains(store[n].specialty_service, ScenarioKeyword)
                       \/ Contains(store[n].facility, ScenarioKeyword) } }
           /\ \A i \in DOMAIN result : result[i].score = KeywordScore

\* The rows the store gained since the write request started.
Gained == SubSeq(store, Len(store_at_call) + 1, Len(store))

\* Every entry of the submitted batch is a row of the store, owned by the caller.
AllPersisted ==
    /\ SubSeq(store, 1, Len(store_at_call)) = store_at_call
    /\ Len(Gained) = Len(entries_data)
    /\ \A i \in DOMAIN entries_data :
          /\ Gained[i].user_id = user.id
          /\ Gained[i].facility = entries_data[i].facility
          /\ Gained[i].specialty_service = entries_data[i].specialty_service
          /\ Gained[i].knowledge_description = entries_data[i].knowledge_description
          /\ Gained[i].status = entries_data[i].status

\* C17 Batch creation is all-or-nothing: until create_knowledge_entries_batch
\* has returned or raised no entry of the batch is committed; once it has,
\* either every entry of the batch is persisted or none is; when validation
\* of an entry failed (400 unknown facility or specialty, 403 MA not assigned)
\* none is, and when the function returned every one is.
C17_BatchAllOrNothing ==
    op = "create_knowledge_entries_batch"
        => /\ pc # "done" => store = store_at_call
           /\ pc = "done" =>
                 /\ store = store_at_call \/ AllPersisted
                 /\ error \in {"400", "403"} => store = store_at_call
                 /\ returned # NotReturned => AllPersisted

C17_Witness ==
    /\ op = "create_knowledge_entries_batch" /\ pc = "done"
    /\ error = "403"
    /\ idx = 2 /\ Len(created_entries) = 1
    /\ store = store_at_call

\* C18 Ownership gate on writes: update_knowledge_entry and
\* delete_knowledge_entry change the store only at the entry addressed, and
\* only when its user_id is the caller's id; for any other caller (and for an
\* id no entry has) they return None / False, the route answers 404, and
\* every stored entry is unchanged.
C18_OwnershipGate ==
    (op \in {"update_knowledge_entry", "delete_knowledge_entry"} /\ pc = "done")
        => IF \E j \in DOMAIN store_at_call :
                 /\ store_at_call[j].id = entry_id
                 /\ store_at_call[j].user_id = user.id
           THEN \A j \in DOMAIN store_at_call :
                   store_at_call[j].id # entry_id =>
                       \E k \in DOMAIN store : store[k] = store_at_call[j]
           ELSE /\ store = store_at_call
                /\ db_error \/ /\ error = "404"
                               /\ returned = IF op = "update_knowledge_entry"
                                             THEN "None" ELSE "False"

C18_Witness ==
    /\ op = "update_knowledge_entry" /\ pc = "done"
    /\ error = "404" /\ returned = "None"
    /\ entry_data # NoData
    /\ \E j \in DOMAIN store :
          store[j].id = entry_id /\ store[j].user_id # user.id

\* The similarity of two vectors of equal length and non-zero norm, in 1/50.
Similarity(a, b) == (Dot(a, b) * 50) \div (Norm(a) * Norm(b))

\* The candidate's embedding succeeded and its similarity to the query
\* embedding is >= min (a zero vector has no similarity that is >= anything).
Clears(qvec, emb, min) ==
    /\ emb # None
    /\ Norm(qvec) * Norm(emb) # 0
    /\ Similarity(qvec, emb) >= min

\* list is the first k elements of `scored` sorted by score descending:
\* it has min(k, len) elements, all taken from scored and none twice, in
\* non-increasing order, and nothing left out scores more than one taken.
FirstKDescending(list, scored, k) ==
    /\ Len(list) = Min(k, Len(scored))
    /\ \A i \in DOMAIN list : \E j \in DOMAIN scored : list[i] = scored[j]
    /\ \A i, j \in DOMAIN list : i # j => list[i].entry # list[j].entry
    /\ \A i \in 1..(Len(list) - 1) : list[i].score >= list[i + 1].score
    /\ \A j \in DOMAIN scored :
          (\A i \in DOMAIN list : list[i] # scored[j])
             => \A i \in DOMAIN list : list[i].score >= scored[j].score

\* One pass of the scoring loop keeps the candidate, with its similarity as
\* score, exactly when its embedding succeeded and the similarity is
\* >= min_similarity.
RetainStep ==
    (pc = "score" /\ error' = "none" /\ pc' # "idle")
        => scored_entries' =
              IF Clears(query_embedding, last_call'.call.value, min_similarity)
              THEN Append(scored_entries,
                          [entry |-> entries[idx],
                           score |-> Similarity(query_embedding, last_call'.call.value)])
              ELSE scored_entries

\* C19 Semantic-path result: when the query embedding is available and at
\* least one candidate clears the threshold, semantic_search returns exactly
\* the first top_k elements of the fetched candidates whose embedding
\* succeeded and whose similarity is >= min_similarity, sorted by similarity
\* descending.
C19_SemanticPathResult ==
    /\ []((SemanticDone /\ query_embedding # None /\ scored_entries # <<>>)
            => FirstKDescending(result, scored_entries, top_k))
    /\ [][RetainStep]_vars

C19_Witness ==
    /\ SemanticDone /\ query_embedding # None
    /\ top_k = 2
    /\ Len(entries) = 3 /\ Len(scored_entries) = 2
    /\ scored_entries[1].entry = entries[1]
    /\ scored_entries[2].entry = entries[3]
    /\ min_similarity = DefaultMinSimilarity
    /\ Len(result) = 2
    /\ result[1].score > result[2].score

\* C20 Some result whenever a substring match exists: for every query,
\* filters, top_k >= 1 and adapter outcomes, when keyword_search returns a
\* non-empty list for the arguments of a semantic_search call, the list
\* semantic_search returns is non-empty.
C20_SomeResult ==
    (/\ SemanticDone /\ top_k >= 1
     /\ keyword_search_fallback(store, query, filters, top_k) # <<>>)
        => result # <<>>

C20_Witness ==
    /\ SemanticDone /\ top_k >= 1
    /\ query_embedding # None
    /\ filters # NoFilters
    /\ keyword_search_fallback(store, query, filters, top_k) # <<>>
    /\ scored_entries # <<>>
    /\ result[1].entry # keyword_search_fallback(store, query, filters, top_k)[1].entry
\* No published record passes the structured filters of the request.
NoCandidate ==
    \A j \in DOMAIN store :
        ~(store[j].status = "published" /\ SemanticFilters(store[j], filters))

(***************************************************************************)
(* C21: when the query embedding is available and no published record      *)
(* matches the structured filters, semantic_search returns the empty list  *)
(* after one embedding call (the query's) and one record-store query (the  *)
(* candidate query, so the keyword matcher was not invoked), and           *)
(* keyword_search for the same query, filters and top_k finds nothing.     *)
(***************************************************************************)
C21_EmptyCandidateSet ==
    (SemanticDone /\ query_embedding # None /\ NoCandidate)
        => /\ result = <<>>
           /\ error = "none"
           /\ embed_calls = 1
           /\ db_queries = 1
           /\ keyword_search_fallback(store, query, filters, top_k) = <<>>

\* The store holds a published record the keyword matcher would find without
\* the filters, and the filters leave no candidate.
C21_Witness ==
    /\ SemanticDone /\ query_embedding # None /\ NoCandidate
    /\ top_k >= 1
    /\ keyword_search_fallback(store, query, NoFilters, top_k) # <<>>

\* The loop body for a candidate whose embedding call returned None.
SkipStep ==
    (pc = "score" /\ last_call'.call.value = None /\ ~last_call'.call.raised)
        => /\ scored_entries' = scored_entries
           /\ error' = "none"
           /\ IF idx < Len(entries)
              THEN pc' = "score" /\ idx' = idx + 1 /\ result' = result
              ELSE IF scored_entries = <<>>
              THEN pc' = "keyword" /\ result' = result
              ELSE /\ pc' = "done"
                   /\ FirstKDescending(result', scored_entries, top_k)

\* A semantic-path result is made of retained candidates.
OnlyRetainedReturned ==
    (SemanticDone /\ query_embedding # None /\ scored_entries # <<>>)
        => \A i \in DOMAIN result :
              \E j \in DOMAIN scored_entries : result[i] = scored_entries[j]

(***************************************************************************)
(* C22: a candidate whose embedding call is Unavailable is left out of     *)
(* scoring and the request goes on without an error: scored_entries stays  *)
(* as it was, the loop moves to the next candidate, and after the last one *)
(* the retained candidates are ranked (or, when there is none, the keyword *)
(* matcher runs) as they are for the candidates whose calls succeeded.  A  *)
(* list returned on the semantic path holds retained candidates only, so   *)
(* the failed candidate is not in it.                                      *)
(***************************************************************************)
C22_FailedCandidateExcluded == [][SkipStep]_vars /\ []OnlyRetainedReturned

\* Three candidates were fetched, the call for the last one failed, and the
\* two others are returned.
C22_Witness ==
    /\ SemanticDone /\ query_embedding # None
    /\ Len(entries) = 3 /\ idx = 3
    /\ last_call.failure /\ last_call.call.value = None
    /\ Len(scored_entries) = 2 /\ Len(result) = 2

\* Position of a record in the list the candidate query returned.
FetchPosition(e) == CHOOSE j \in DOMAIN entries : entries[j] = e

(***************************************************************************)
(* C23: in a semantic-path result two retained candidates with equal       *)
(* similarity appear in the relative order in which the record store       *)
(* returned them.                                                          *)
(***************************************************************************)
C23_StableTies ==
    (SemanticDone /\ query_embedding # None /\ scored_entries # <<>>)
        => \A i, j \in DOMAIN result :
              (i < j /\ result[i].score = result[j].score)
                 => FetchPosition(result[i].entry) < FetchPosition(result[j].entry)

\* Three candidates were retained and the two returned have equal similarity.
C23_Witness ==
    /\ SemanticDone /\ query_embedding # None
    /\ Len(result) = 2
    /\ result[1].score = result[2].score
    /\ Len(scored_entries) = 3

(***************************************************************************)
(* C24: within one semantic_search call the query embedding is requested   *)
(* first: while it is pending no record-store query and no other embedding *)
(* call has been issued.  When it is Unavailable the query's call stays    *)
(* the only embedding call of the request and the candidate query is never *)
(* issued.  Otherwise the request makes at most one embedding call per     *)
(* fetched candidate, after the candidate query.  The keyword matcher is   *)
(* invoked at most once, and only after the query embedding failed or      *)
(* after every candidate was scored with none retained.                    *)
(***************************************************************************)
C24_PipelineOrder ==
    op = "semantic_search" =>
        /\ pc = "embed_query" => (embed_calls = 0 /\ db_queries = 0)
        /\ pc = "fetch" => (embed_calls = 1 /\ db_queries = 0 /\ query_embedding # None)
        /\ pc = "score" => (db_queries = 1 /\ embed_calls = idx /\ idx <= Len(entries))
        /\ (pc \in {"keyword", "done"} /\ query_embedding = None)
              => (embed_calls = 1 /\ entries = <<>> /\ db_queries <= 1)
        /\ query_embedding # None
              => (embed_calls <= 1 + Len(entries) /\ (embed_calls > 1 => db_queries >= 1))
        /\ pc = "keyword"
              => \/ query_embedding = None /\ db_queries = 0
                 \/ /\ query_embedding # None /\ db_queries = 1
                    /\ entries # <<>> /\ idx = Len(entries)
                    /\ embed_calls = 1 + Len(entries)
                    /\ scored_entries = <<>>
        /\ pc = "done"
              => /\ db_queries <= 2
                 /\ db_queries = 2
                       => /\ query_embedding # None /\ scored_entries = <<>>
                          /\ embed_calls = 1 + Len(entries)

\* The longest pipeline: the query embedding, the candidate query, a call for
\* each of three candidates, none retained, and the keyword matcher.
C24_Witness ==
    /\ SemanticDone /\ query_embedding # None
    /\ Len(entries) = 3 /\ embed_calls = 4 /\ db_queries = 2
    /\ result # <<>>

\* A step of the running request leaves the suspended request's locals as
\* they are, and a switch hands each request its own locals back unchanged.
IsolatedStep ==
    parked' # parked => (parked' = RunningFrame /\ RunningFrame' = parked)

\* One pass of the scoring loop of the running request decides on its own
\* candidate with its own query vector and that candidate's embedding outcome.
OwnRetainStep ==
    (parked' = parked /\ pc = "score" /\ error' = "none" /\ pc' # "idle")
        => scored_entries' =
              IF Clears(query_embedding, last_call'.call.value, min_similarity)
              THEN Append(scored_entries,
                          [entry |-> entries[idx],
                           score |-> Similarity(query_embedding, last_call'.call.value)])
              ELSE scored_entries

\* The retained candidates are fetched candidates of the request itself, in
\* fetch order, and one embedding call at a time is in flight.
OwnCandidates ==
    op = "semantic_search" =>
        /\ pc = "score" => embed_calls = idx
        /\ Len(scored_entries) <= idx
        /\ \A i \in DOMAIN scored_entries :
              \E j \in 1..idx : scored_entries[i].entry = entries[j]
        /\ \A i, j \in DOMAIN scored_entries :
              i < j => FetchPosition(scored_entries[i].entry)
                          < FetchPosition(scored_entries[j].entry)

\* The list returned on the semantic path is the stable descending sort of
\* the retained candidates, cut at top_k.
RankedFromRetained ==
    (SemanticDone /\ query_embedding # None /\ scored_entries # <<>>)
        => /\ FirstKDescending(result, scored_entries, top_k)
           /\ \A i, j \in DOMAIN result :
                 (i < j /\ result[i].score = result[j].score)
                    => FetchPosition(result[i].entry) < FetchPosition(result[j].entry)

(***************************************************************************)
(* C25: the list semantic_search returns is determined by the request's    *)
(* query vector, the fetch order of its candidates and each candidate's    *)
(* embedding outcome: the per-candidate calls are issued and complete one  *)
(* at a time in fetch order, every retention decision reads the request's  *)
(* own locals, and a request running concurrently never changes them.      *)
(***************************************************************************)
C25_RankingIndependent ==
    /\ [][IsolatedStep]_vars
    /\ [][OwnRetainStep]_vars
    /\ [](OwnCandidates /\ RankedFromRetained)

\* A request returns two ranked candidates while the other request, which
\* fetched one candidate and retained it, is suspended in its scoring loop
\* or has finished.
C25_Witness ==
    /\ SemanticDone /\ query_embedding # None
    /\ Len(result) = 2
    /\ parked.op = "semantic_search"
    /\ parked.filters # filters
    /\ parked.query_embedding # None
    /\ parked.query_embedding # query_embedding
    /\ Len(parked.scored_entries) = 1

(***************************************************************************)
(* C26: semantic_search, keyword_search and autocomplete leave the record  *)
(* store unchanged: no step of these operations, whatever the adapter and  *)
(* the store answer, adds, removes, reorders or rewrites a record.         *)
(***************************************************************************)
C26_ReadOnlyCore == [][store' = store]_vars

\* An autocomplete request answered from a full store that holds a draft.
C26_Witness ==
    /\ pc = "done" /\ op = "search_autocomplete" /\ error = "none"
    /\ Len(suggestions) = 2
    /\ Len(store) = MaxRecords
    /\ \E j \in DOMAIN store : store[j].status = "draft"

(***************************************************************************)
(* C27: whenever semantic_search computes a cosine similarity, the query   *)
(* vector and the candidate vector it compares have the same length, so    *)
(* the computation never fails on a shape mismatch.                        *)
(***************************************************************************)
C27_EqualLength ==
    /\ error # "ValueError"
    /\ (op = "semantic_search" /\ embed_calls >= 2 /\ last_call.call.value # None)
          => Len(last_call.call.value) = Len(query_embedding)

\* Three similarities were computed in one request.
C27_Witness ==
    /\ SemanticDone /\ query_embedding # None
    /\ embed_calls = 4
    /\ last_call.call.value # None
    /\ Len(scored_entries) = 3

(***************************************************************************)
(* C28: in the smart-search response every result produced by similarity   *)
(* scoring (the query embedding was available and a candidate was          *)
(* retained) is labelled "semantic", and every result produced by the      *)
(* keyword matcher is labelled "keyword".                                  *)
(***************************************************************************)
C28_LabelAgreesWithProvenance ==
    (route = "smart-search" /\ SemanticDone)
        => \A i \in DOMAIN result :
              SmartSearchResponse(result)[i].match_type =
                 IF query_embedding # None /\ scored_entries # <<>>
                 THEN "semantic" ELSE "keyword"

\* search_requirements_by_diagnosis returned its list of items; each item is
\* built from one element of `result`.
GuidanceReturned == route = "diagnosis-guidance" /\ pc = "done" /\ error = "none"

(***************************************************************************)
(* C29: every item search_requirements_by_diagnosis returns, from          *)
(* semantic_search or from its own query after semantic_search raised, is  *)
(* derived from a published record of the store whose knowledge_type is    *)
(* diagnosis_specialty, and at most `limit` items are returned.            *)
(***************************************************************************)
C29_GuidanceGated ==
    GuidanceReturned
        => /\ Len(result) <= top_k
           /\ \A i \in DOMAIN result :
                 /\ \E j \in DOMAIN store : store[j] = result[i].entry
                 /\ result[i].entry.status = "published"
                 /\ result[i].entry.knowledge_type = "diagnosis_specialty"

\* semantic_search raised, the function's own query answered, and the store
\* holds a draft and a published record of another type that the diagnosis
\* text matches.
C29_Witness ==
    /\ GuidanceReturned
    /\ op = "search_requirements_by_diagnosis" /\ db_error
    /\ result # <<>>
    /\ \E j \in DOMAIN store :
          /\ store[j].knowledge_type # "diagnosis_specialty"
          /\ store[j].status = "published"
          /\ ilike(store[j].knowledge_description, Wrap(query))
    /\ \E j \in DOMAIN store : store[j].status = "draft"

\* The entry names a facility and a specialty that exist, its author is
\* assigned to both, and its ids are theirs.
AssignmentHolds(e) ==
    /\ \E f \in FacilityTable :
          /\ f.name = e.facility
          /\ <<e.user_id, f.id>> \in UserFacility
          /\ e.facility_id = f.id
    /\ \E sp \in SpecialtyTable :
          /\ sp.name = e.specialty_service
          /\ <<e.user_id, sp.id>> \in UserSpecialty
          /\ e.specialty_id = sp.id

(***************************************************************************)
(* C30: after any sequence of create_knowledge_entry,                      *)
(* create_knowledge_entries_batch and update_knowledge_entry calls, every  *)
(* entry owned by an MA names a facility and a specialty that exist and    *)
(* that the MA is assigned to (the assignments do not change), and its     *)
(* facility_id and specialty_id are the ids of the facility and specialty  *)
(* its text names.                                                         *)
(***************************************************************************)
C30_MaAssignment ==
    \A j \in DOMAIN store :
        (\E u \in Users : u.role = "MA" /\ u.id = store[j].user_id)
            => AssignmentHolds(store[j])

====
